---- MODULE Spec2Model ----
(***************************************************************************)
(* Model of the permutation search engine of realis.py (block mode, with   *)
(* checkpoint), realis2.py (batch mode) and realis3.py / realis4.py (batch *)
(* mode with the failed-candidate log).  One coordinator process drives a  *)
(* multiprocessing.Pool; the workers run init_worker once and then unit    *)
(* tasks; results come back through imap_unordered in completion order.    *)
(***************************************************************************)
EXTENDS Integers, Sequences, FiniteSets, TLC

\* ------------------------------------------------------------------ bounds
\* Longest wordlist (lines of keys-input.txt) explored.
MaxWords == 3
\* Largest cpu_count() explored.
MaxWorkers == 2
\* Largest batch size explored by the run model.
MaxBatch == 3
\* Largest chunk size explored for chunked_iterable on its own.
MaxChunk == 5
\* Number of consecutive runs of main() over the same files.
MaxRuns == 2
\* Units of one run whose task function raises and whose result is not yet consumed.
MaxFaults == 1
\* Longest completed-block list saved and loaded back on its own.
MaxSaved == 3

\* -------------------------------------------------------------- vocabulary
\* The wordlists explored are the prefixes of these: distinct words, a repeated
\* line, a repeated line that is not the first, and a word ("aa") that
\* concatenates like two others.
MasterLists ==
    { << "a", "b", "c", "d", "e" >>,
      << "a", "a", "b", "c", "d" >>,
      << "b", "a", "a", "c", "d" >>,
      << "a", "aa", "b", "c", "d" >> }
WordLists == { SubSeq(m, 1, k) : m \in MasterLists, k \in 0..MaxWords }
\* A checkpoint entry that is no word of the wordlist (left by another search).
Foreign == "x"
\* Python's None, as the pw field of a result without a match.
None == "<None>"
Scripts == {"realis", "realis2", "realis3"}

VARIABLES
    script,            \* which program runs: realis.py, realis2.py, realis3.py/realis4.py
    words,             \* the wordlist as loaded (order kept, duplicates kept)
    target,            \* the one string CheckPassword accepts, or None
    total_workers,     \* multiprocessing.cpu_count()
    batch_size,        \* BATCH_SIZE
    file_checkpoint,   \* checkpoint.json: [exists, text]
    file_log_success,  \* found.log: [exists, content]
    file_log_failed,   \* failed.log: [exists, lines]
    log_buffer,        \* log_file_handle's unflushed buffer
    pc,                \* position of main()
    completed_blocks,  \* in-memory value loaded from checkpoint.json
    tasks,             \* the task list handed to imap_unordered
    total_checked,
    session_checked,
    pool,              \* the pool: its state, and how many worker processes are
                       \* starting, idle or dead, and the units being processed
    inqueue,           \* index of the next task a worker will receive
    outqueue,          \* results in completion order, not yet consumed
    run,               \* number of main() runs started
    consumed,          \* units whose results this run has consumed
    matched,           \* the found=true result this run consumed, if any
    failed_unit,       \* the unit whose exception ended this run (0: none)
    init_failed,       \* some init_worker raised in this run
    start_record,      \* what checkpoint.json held when this run started
    warned             \* this run printed "[WARN] Checkpoint corrupt, reset ulang."

vars == << script, words, target, total_workers, batch_size,
           file_checkpoint, file_log_success, file_log_failed, log_buffer,
           pc, completed_blocks, tasks, total_checked, session_checked,
           pool, inqueue, outqueue,
           run, consumed, matched, failed_unit, init_failed, start_record, warned >>

config == << script, words, target, total_workers, batch_size >>
durable == << file_checkpoint, file_log_success, file_log_failed >>

\* ------------------------------------------------------- pure helpers
Min(a, b) == IF a < b THEN a ELSE b

RECURSIVE factorial(_)
factorial(n) == IF n <= 0 THEN 1 ELSE n * factorial(n - 1)

\* "".join(p)
RECURSIVE Join(_)
Join(p) == IF p = << >> THEN "" ELSE Head(p) \o Join(Tail(p))

\* The concatenation of a sequence of sequences.
RECURSIVE Flatten(_)
Flatten(ss) == IF ss = << >> THEN << >> ELSE Head(ss) \o Flatten(Tail(ss))

\* The sequence s without its element at position i.
DropAt(s, i) == SubSeq(s, 1, i - 1) \o SubSeq(s, i + 1, Len(s))

Contains(s, x) == \E i \in 1..Len(s) : s[i] = x

\* Position of the first occurrence of x in s (0 when absent).
RECURSIVE IndexFrom(_, _, _)
IndexFrom(s, x, i) ==
    IF i > Len(s) THEN 0
    ELSE IF s[i] = x THEN i ELSE IndexFrom(s, x, i + 1)

\* list.remove(x): drops the first occurrence.
list_remove_noop(s, x) == s
list_remove(s, x) == DropAt(s, IndexFrom(s, x, 1))

\* itertools.permutations(pool, r): by position, in lexicographic order of
\* the positions; equal values at different positions are different elements.
RECURSIVE permutations(_, _)
RECURSIVE PermsFrom(_, _, _)
PermsFrom(items, r, i) ==
    IF i > Len(items) THEN << >>
    ELSE LET rest == permutations(DropAt(items, i), r - 1)
         IN  [k \in 1..Len(rest) |-> << items[i] >> \o rest[k]]
             \o PermsFrom(items, r, i + 1)
permutations(items, r) ==
    IF r = 0 THEN << << >> >>
    ELSE IF r > Len(items) THEN << >>
    ELSE PermsFrom(items, r, 1)

\* chunked_iterable(iterable, size): islice(it, size) until it is empty.
RECURSIVE chunked_full_only(_, _)
chunked_full_only(stream, size) ==
    IF Len(stream) < size \/ stream = << >> THEN << >>
    ELSE << SubSeq(stream, 1, size) >>
         \o chunked_full_only(SubSeq(stream, size + 1, Len(stream)), size)
RECURSIVE chunked_iterable(_, _)
chunked_iterable(stream, size) ==
    IF SubSeq(stream, 1, Min(size, Len(stream))) = << >> THEN << >>
    ELSE << SubSeq(stream, 1, Min(size, Len(stream))) >>
         \o chunked_iterable(SubSeq(stream, Min(size, Len(stream)) + 1, Len(stream)), size)

\* ------------------------------------------------------------- the Verifier
\* shared_lib.CheckPassword(pass_c, salt, cipher, len): a deterministic oracle.
CheckPassword(password_str) == IF password_str = target THEN 1 ELSE 0

\* --------------------------------------------------------------- unit tasks
\* The word sequences worker_task's loop goes through for a block, in loop
\* order: start_word followed by each p of permutations(remaining_words, r - 1).
\* itertools.permutations tabulated for the lists a block can be left with.
PermLists == WordLists \cup UNION { { DropAt(ws, i) : i \in 1..Len(ws) } : ws \in WordLists }
PermutationsOf == [items \in PermLists |-> [r \in 0..Len(items) |-> permutations(items, r)]]

block_perms(task) ==
    LET remaining_words == list_remove(task.all_words, task.start_word)
        perms == PermutationsOf[remaining_words][task.r - 1]
    IN  [k \in 1..Len(perms) |-> << task.start_word >> \o perms[k]]

\* password_str = start_word + "".join(p), for each p in loop order.
block_candidates(task) ==
    LET perms == block_perms(task)
    IN  [k \in 1..Len(perms) |-> Head(perms[k]) \o Join(Tail(perms[k]))]

\* password_str = "".join(p_tuple), for each p_tuple of the batch.
batch_candidates(task) ==
    [k \in 1..Len(task.batch_tuples) |-> Join(task.batch_tuples[k])]

\* The "for p in itertools.permutations(...)" loop of worker_task, from the
\* i-th candidate on, with local_count checked so far.
RECURSIVE block_loop(_, _, _, _)
block_loop(cands, i, local_count, start_word) ==
    IF i > Len(cands)
    THEN [is_found |-> FALSE, pw |-> None, count |-> local_count,
          finished_word |-> start_word, failed_data |-> << >>]
    ELSE IF CheckPassword(cands[i]) = 1
         THEN [is_found |-> TRUE, pw |-> cands[i], count |-> local_count + 1,
               finished_word |-> start_word, failed_data |-> << >>]
         ELSE block_loop(cands, i + 1, local_count + 1, start_word)

\* worker_task(task_data) of realis.py.
worker_task_never_reports(task) ==
    [block_loop(block_candidates(task), 1, 0, task.start_word)
        EXCEPT !.is_found = FALSE, !.pw = None]
worker_task(task) == block_loop(block_candidates(task), 1, 0, task.start_word)

\* The "for p_tuple in batch_tuples" loop of worker_batch_task, from the i-th
\* candidate on.  realis2.py keeps no failed list (enable_failed_log = FALSE).
RECURSIVE batch_loop(_, _, _, _, _)
batch_loop(cands, i, checked, failed_list, enable_failed_log) ==
    IF i > Len(cands)
    THEN [is_found |-> FALSE, pw |-> None, count |-> checked,
          finished_word |-> None, failed_data |-> failed_list]
    ELSE IF CheckPassword(cands[i]) = 1
         THEN [is_found |-> TRUE, pw |-> cands[i], count |-> checked + 1,
               finished_word |-> None, failed_data |-> failed_list]
         ELSE batch_loop(cands, i + 1, checked + 1,
                         IF enable_failed_log THEN Append(failed_list, cands[i])
                         ELSE failed_list,
                         enable_failed_log)

\* worker_batch_task(task_data) of realis2.py and of realis3.py / realis4.py
\* (ENABLE_FAILED_LOG = True).
worker_batch_task_full_scan(task, enable_failed_log) ==
    LET r == batch_loop(batch_candidates(task), 1, 0, << >>, enable_failed_log)
    IN  [r EXCEPT !.count = Len(task.batch_tuples)]
worker_batch_task(task, enable_failed_log) ==
    batch_loop(batch_candidates(task), 1, 0, << >>, enable_failed_log)

\* The function the pool maps over the tasks, per script.
unit_result(task) ==
    IF script = "realis" THEN worker_task(task)
    ELSE worker_batch_task(task, script = "realis3")

unit_candidates(task) ==
    IF script = "realis" THEN block_candidates(task) ELSE batch_candidates(task)

\* ------------------------------------------------------------ checkpoint
\* A Python value as main() holds it: kind is "list" (items are its entries),
\* "object" (a dict; items are its keys) or "scalar" (a number).  The same
\* record describes what a JSON document is: then kind may also be "absent"
\* (no file) or "garbage" (json.load raises on it).
PyList(items) == [kind |-> "list", items |-> items]
Absent == [kind |-> "absent", items |-> << >>]
Garbage == [kind |-> "garbage", items |-> << >>]

\* A file on disk: whether it exists, and its text as a sequence of characters.
NoFile == [exists |-> FALSE, text |-> << >>]
FileOf(text) == [exists |-> TRUE, text |-> text]

\* The characters of the strings that occur as words or checkpoint entries.
Spelling(w) ==
    CASE w = "aa"   -> << "a", "a" >>
      [] w = "q\"r" -> << "q", "\"", "r" >>
      [] w = "\\"   -> << "\\" >>
      [] w = "s, t" -> << "s", ",", " ", "t" >>
      [] OTHER      -> << w >>

\* json.encoder's string encoder: the quote and the backslash are escaped.
json_escape_none(ch) == << ch >>
json_escape(ch) ==
    IF ch = "\"" THEN << "\\", "\"" >>
    ELSE IF ch = "\\" THEN << "\\", "\\" >>
    ELSE << ch >>
json_string(w) ==
    << "\"" >>
    \o Flatten([i \in 1..Len(Spelling(w)) |-> json_escape(Spelling(w)[i])])
    \o << "\"" >>

\* The chunks json.dump hands to f.write for a list of strings, in order:
\* '["a"', ', "b"', ..., ']', or '[]' for the empty list.
json_chunks(value) ==
    IF value.items = << >> THEN << << "[", "]" >> >>
    ELSE [k \in 1..(Len(value.items) + 1) |->
            IF k = 1 THEN << "[" >> \o json_string(value.items[1])
            ELSE IF k <= Len(value.items)
                 THEN << ",", " " >> \o json_string(value.items[k])
                 ELSE << "]" >>]

\* with open(FILE_CHECKPOINT, "w") as f: json.dump(completed_blocks, f)
json_dump_nothing(value) == FileOf(<< "[", "]" >>)
json_dump(value) == FileOf(Flatten(json_chunks(value)))

\* The same statement cut short after its first k chunks: "w" has truncated
\* the file, and leaving the "with" flushes what was written so far.
json_dump_torn(value, k) == FileOf(Flatten(SubSeq(json_chunks(value), 1, k)))

\* json.load(f) on the documents the model holds: a list of strings, an
\* object with string keys and number values, or a number; blanks are skipped
\* between tokens.  A failed scan ([ok |-> FALSE]) is a JSONDecodeError.
Digits == { "0", "1", "2", "3", "4", "5", "6", "7", "8", "9" }
ScanFail == [ok |-> FALSE, kind |-> "garbage", items |-> << >>, next |-> 0]
Scanned(kind, items, next) == [ok |-> TRUE, kind |-> kind, items |-> items, next |-> next]

RECURSIVE skip_ws(_, _)
skip_ws(text, i) ==
    IF i <= Len(text) /\ text[i] = " " THEN skip_ws(text, i + 1) ELSE i

\* The string whose opening quote is before position i; acc is what was read.
RECURSIVE scan_string(_, _, _)
scan_string(text, i, acc) ==
    IF i > Len(text) THEN ScanFail
    ELSE IF text[i] = "\"" THEN Scanned("string", << acc >>, i + 1)
    ELSE IF text[i] = "\\"
         THEN IF i + 1 <= Len(text) /\ text[i + 1] \in { "\"", "\\" }
              THEN scan_string(text, i + 2, acc \o text[i + 1])
              ELSE ScanFail
    ELSE scan_string(text, i + 1, acc \o text[i])

RECURSIVE scan_number(_, _)
scan_number(text, i) ==
    IF i <= Len(text) /\ text[i] \in Digits THEN scan_number(text, i + 1)
    ELSE Scanned("scalar", << >>, i)

RECURSIVE parse_value(_, _)
RECURSIVE parse_list(_, _, _, _)
RECURSIVE parse_object(_, _, _, _)
parse_value(text, i) ==
    IF i > Len(text) THEN ScanFail
    ELSE IF text[i] = "\"" THEN scan_string(text, i + 1, "")
    ELSE IF text[i] = "[" THEN parse_list(text, skip_ws(text, i + 1), << >>, TRUE)
    ELSE IF text[i] = "{" THEN parse_object(text, skip_ws(text, i + 1), << >>, TRUE)
    ELSE IF text[i] \in Digits THEN scan_number(text, i)
    ELSE ScanFail

\* The elements of a list from position i on (first: none was read yet).
parse_list(text, i, acc, first) ==
    IF i > Len(text) THEN ScanFail
    ELSE IF text[i] = "]"
         THEN IF first THEN Scanned("list", acc, i + 1) ELSE ScanFail
    ELSE LET v == parse_value(text, i)
             j == skip_ws(text, v.next)
         IN  IF ~v.ok \/ v.kind # "string" \/ j > Len(text) THEN ScanFail
             ELSE IF text[j] = ","
                  THEN parse_list(text, skip_ws(text, j + 1), acc \o v.items, FALSE)
             ELSE IF text[j] = "]" THEN Scanned("list", acc \o v.items, j + 1)
             ELSE ScanFail

\* The members of an object from position i on; the keys are kept.
parse_object(text, i, acc, first) ==
    IF i > Len(text) THEN ScanFail
    ELSE IF text[i] = "}"
         THEN IF first THEN Scanned("object", acc, i + 1) ELSE ScanFail
    ELSE IF text[i] # "\"" THEN ScanFail
    ELSE LET key == scan_string(text, i + 1, "")
             c == skip_ws(text, key.next)
         IN  IF ~key.ok \/ c > Len(text) \/ text[c] # ":" THEN ScanFail
             ELSE LET v == parse_value(text, skip_ws(text, c + 1))
                      j == skip_ws(text, v.next)
                  IN  IF ~v.ok \/ j > Len(text) THEN ScanFail
                      ELSE IF text[j] = ","
                           THEN parse_object(text, skip_ws(text, j + 1), acc \o key.items, FALSE)
                      ELSE IF text[j] = "}" THEN Scanned("object", acc \o key.items, j + 1)
                      ELSE ScanFail

\* What is in a file, as json.load(f) sees it: the whole text must be one value.
read_json(file) ==
    IF ~file.exists THEN Absent
    ELSE LET v == parse_value(file.text, skip_ws(file.text, 1))
         IN  IF ~v.ok \/ skip_ws(file.text, v.next) <= Len(file.text) THEN Garbage
             ELSE [kind |-> v.kind, items |-> v.items]

\* Lines 131-139 of realis.py: os.path.exists, json.load and the len() of the
\* [RESUME] message sit in one try; any exception resets to the empty list.
load_raises(record) == record.kind \in {"garbage", "scalar"}
load_checkpoint(record) ==
    IF record.kind = "absent" THEN PyList(<< >>)
    ELSE IF load_raises(record) THEN PyList(<< >>)
    ELSE [kind |-> record.kind, items |-> record.items]

\* "w in completed_blocks"
skip_never(w, completed) == FALSE
in_completed(w, completed) == Contains(completed.items, w)

\* Lines 141-145 of realis.py: one task per wordlist line not in the checkpoint.
RECURSIVE block_tasks_from(_, _, _)
block_tasks_from(ws, completed, i) ==
    IF i > Len(ws) THEN << >>
    ELSE (IF in_completed(ws[i], completed) THEN << >>
          ELSE << [start_word |-> ws[i], all_words |-> ws, r |-> Len(ws)] >>)
         \o block_tasks_from(ws, completed, i + 1)
block_tasks(ws, completed) == block_tasks_from(ws, completed, 1)

\* Lines 127-129 of realis2.py: the permutation stream cut into batches.
batch_tasks(ws, size) ==
    LET chunks == chunked_iterable(permutations(ws, Len(ws)), size)
    IN  [k \in 1..Len(chunks) |-> [batch_tuples |-> chunks[k], all_words |-> ws]]

\* ------------------------------------------------------------------ states
Terminal == {"Found", "Exhausted", "Interrupted", "Errored", "AllDone", "Fatal"}

NoResult == [is_found |-> FALSE, pw |-> None, count |-> 0,
             finished_word |-> None, failed_data |-> << >>, unit |-> 0,
             raised |-> FALSE]

NoPool == [st |-> "none", starting |-> 0, idle |-> 0, dead |-> 0, busy |-> {}]
\* multiprocessing.Pool(processes=total_workers, initializer=init_worker, ...)
NewPool == [st |-> "running", starting |-> total_workers, idle |-> 0, dead |-> 0, busy |-> {}]
\* pool.terminate(), also on leaving the "with" block: every worker is killed.
Terminated == [st |-> "terminated", starting |-> 0, idle |-> 0, dead |-> 0, busy |-> {}]

\* Every candidate string of a wordlist.
AllCandidates(ws) ==
    LET perms == permutations(ws, Len(ws))
    IN  { Join(perms[k]) : k \in 1..Len(perms) }

\* checkpoint.json as main() may find it when the first run starts.
\* No file, an empty file, the number 1, {"a": 1}, and ["x"].
StartupCheckpoints ==
    { NoFile,
      FileOf(<< >>),
      FileOf(<< "1" >>),
      FileOf(<< "{", "\"", "a", "\"", ":", " ", "1", "}" >>),
      json_dump(PyList(<< Foreign >>)) }

TypeOK ==
    /\ script \in Scripts
    /\ words \in WordLists
    /\ total_workers \in 1..MaxWorkers
    /\ batch_size \in 1..MaxBatch
    /\ pc \in {"start", "loop"} \cup Terminal
    /\ total_checked \in Nat
    /\ session_checked \in Nat
    /\ inqueue \in 1..(Len(tasks) + 1)
    /\ run \in 0..MaxRuns
    /\ file_log_success.exists \in BOOLEAN
    /\ init_failed \in BOOLEAN

\* found.log as main() may find it when the first run starts: absent, or
\* left by an earlier search (another message or wordlist) that found "x".
NoRecord == [exists |-> FALSE, content |-> ""]
StaleRecord == [exists |-> TRUE, content |-> Foreign]

InitWith(success_log) ==
    /\ script \in Scripts
    /\ words \in WordLists
    /\ target \in AllCandidates(words) \cup {None}
    /\ total_workers \in 1..MaxWorkers
    /\ batch_size \in (IF script = "realis" THEN {1} ELSE 2..MaxBatch)
    /\ file_checkpoint \in (IF script = "realis" THEN StartupCheckpoints ELSE {NoFile})
    /\ file_log_success = success_log
    /\ file_log_failed = [exists |-> FALSE, lines |-> << >>]
    /\ log_buffer = << >>
    /\ pc = "start"
    /\ completed_blocks = PyList(<< >>)
    /\ tasks = << >>
    /\ total_checked = 0
    /\ session_checked = 0
    /\ pool = NoPool
    /\ inqueue = 1
    /\ outqueue = << >>
    /\ run = 0
    /\ consumed = {}
    /\ matched = NoResult
    /\ failed_unit = 0
    /\ init_failed = FALSE
    /\ start_record = Absent
    /\ warned = FALSE

Init == InitWith(NoRecord)

\* ------------------------------------------------------------- coordinator
\* log_file_handle.close() in the finally of realis3.py: the buffer reaches the file.
closed_log_drained(buffer) ==
    IF script = "realis3"
    THEN [exists |-> TRUE,
          lines |-> file_log_failed.lines \o buffer
                    \o Flatten([k \in 1..Len(outqueue) |-> outqueue[k].failed_data])]
    ELSE file_log_failed
closed_log(buffer) ==
    IF script = "realis3"
    THEN [exists |-> TRUE, lines |-> file_log_failed.lines \o buffer]
    ELSE file_log_failed

\* Fatal setup: LIB_PATH or KEYS_FILE missing, or the message blob not decodable.
\* main() prints [FATAL] and returns before anything else happens.
FatalSetupLate ==
    /\ pc \in {"start"} \cup Terminal
    /\ run < MaxRuns
    /\ run' = run + 1
    /\ pc' = "Fatal"
    /\ file_log_failed' = [file_log_failed EXCEPT !.exists = TRUE]
    /\ UNCHANGED << config, file_checkpoint, file_log_success, log_buffer,
                    completed_blocks, tasks, total_checked, session_checked, pool,
                    inqueue, outqueue, consumed, matched, failed_unit, init_failed,
                    start_record, warned >>
FatalSetup ==
    /\ pc \in {"start"} \cup Terminal
    /\ run < MaxRuns
    /\ run' = run + 1
    /\ pc' = "Fatal"
    /\ UNCHANGED << config, durable, log_buffer, completed_blocks, tasks,
                    total_checked, session_checked, pool, inqueue, outqueue,
                    consumed, matched, failed_unit, init_failed, start_record, warned >>

\* main() of realis.py from its start to the creation of the pool.
StartBlockRun ==
    /\ pc \in {"start"} \cup Terminal
    /\ run < MaxRuns
    /\ script = "realis"
    /\ run' = run + 1
    /\ start_record' = read_json(file_checkpoint)
    /\ completed_blocks' = load_checkpoint(start_record')
    /\ warned' = load_raises(start_record')
    /\ tasks' = block_tasks(words, completed_blocks')
    /\ IF tasks' = << >>
       THEN /\ pc' = "AllDone"
            /\ total_checked' = 0
            /\ pool' = NoPool
       ELSE /\ pc' = "loop"
            /\ total_checked' = Len(completed_blocks'.items) * factorial(Len(words) - 1)
            /\ pool' = NewPool
    /\ session_checked' = 0
    /\ inqueue' = 1
    /\ outqueue' = << >>
    /\ consumed' = {}
    /\ matched' = NoResult
    /\ failed_unit' = 0
    /\ init_failed' = FALSE
    /\ UNCHANGED << config, durable, log_buffer >>

\* main() of realis2.py / realis3.py from its start to the creation of the pool.
StartBatchRun ==
    /\ pc \in {"start"} \cup Terminal
    /\ run < MaxRuns
    /\ script # "realis"
    /\ run' = run + 1
    /\ start_record' = read_json(file_checkpoint)
    /\ warned' = FALSE
    /\ tasks' = batch_tasks(words, batch_size)
    /\ pc' = "loop"
    /\ total_checked' = 0
    /\ session_checked' = 0
    /\ file_log_failed' = IF script = "realis3"
                          THEN [file_log_failed EXCEPT !.exists = TRUE]
                          ELSE file_log_failed
    /\ log_buffer' = << >>
    /\ pool' = NewPool
    /\ inqueue' = 1
    /\ outqueue' = << >>
    /\ consumed' = {}
    /\ matched' = NoResult
    /\ failed_unit' = 0
    /\ init_failed' = FALSE
    /\ UNCHANGED << config, file_checkpoint, file_log_success, completed_blocks >>

\* "if is_found:" (realis.py 209, realis2.py 184, realis3.py 195).
found_never(res) == FALSE
found_branch(res) == res.is_found

\* found.log after 'with open(FILE_LOG_SUCCESS, "w") as f: f.write(pw)'.
success_record_of_unit(res) ==
    [exists |-> TRUE, content |-> unit_candidates(tasks[res.unit])[1]]
success_record(res) == [exists |-> TRUE, content |-> res.pw]

\* After the loop (realis.py 232-236): "PENCARIAN SELESAI." and, when found.log
\* does not exist, the line that says the password was not found.  realis2.py
\* and realis3.py print "SELESAI." only.
end_report(success_log) ==
    IF script = "realis" /\ ~success_log.exists
    THEN << "SELESAI", "tidak ditemukan" >>
    ELSE << "SELESAI" >>

\* "total_checked += count"
aggregate(total, res) == total + res.count

\* "except Exception as e": pool.terminate(), then return (or break).
handler_pool_kept(p) == [p EXCEPT !.st = "running"]
handler_pool(p) == Terminated

\* --------------------------------------------------------------- dashboard
\* The progress line computed at the head of every loop turn (realis.py 180-196,
\* realis2.py 154-175, realis3.py 166-179).  Times are in tenths of a second;
\* a quotient is kept as numerator and denominator.
\* time.time() - session_start, as the clock may give it: the clock stepped
\* back, no time passed, below and above the floors.
ClockReadings == { -10, 0, 1, 5, 10, 25 }
Quotient(num, den) == [num |-> num, den |-> den]
Raises == [raised |-> TRUE]

\* "if elapsed < 1: elapsed = 1" (realis.py), "if elapsed < 0.1: elapsed = 0.1".
elapsed_floor == IF script = "realis" THEN 10 ELSE 1
clamp_none(raw) == raw
clamp_elapsed(raw) == IF raw < elapsed_floor THEN elapsed_floor ELSE raw

total_combinations == factorial(Len(words))

\* speed = session_checked / elapsed (realis.py), total_checked / elapsed (others).
speed_count == IF script = "realis" THEN session_checked ELSE total_checked

dashboard(raw) ==
    LET elapsed == clamp_elapsed(raw)
        remaining == total_combinations - total_checked
        speed_positive == (speed_count > 0 /\ elapsed > 0) \/ (speed_count < 0 /\ elapsed < 0)
    IN  IF elapsed = 0 THEN Raises      \* ZeroDivisionError
        ELSE [raised    |-> FALSE,
              elapsed   |-> elapsed,
              speed     |-> Quotient(speed_count, elapsed),
              remaining |-> remaining,
              eta       |-> IF speed_positive
                            THEN Quotient(remaining * elapsed, speed_count)
                            ELSE Quotient(0, 1),
              percent   |-> Quotient(total_checked * 100, total_combinations)]

\* An exception in the dashboard is caught by "except Exception" before next().
DashboardErrored ==
    /\ pc' = "Errored"
    /\ pool' = handler_pool(pool)
    /\ outqueue' = << >>
    /\ file_log_failed' = closed_log(log_buffer)
    /\ log_buffer' = << >>
    /\ UNCHANGED << config, file_checkpoint, file_log_success, completed_blocks, tasks,
                    total_checked, session_checked, inqueue, run, consumed, matched,
                    failed_unit, init_failed, start_record, warned >>

\* A loop turn: the dashboard for some clock reading, then the rest of the turn.
LoopTurn(rest) ==
    /\ pc = "loop"
    /\ \E fault \in { dashboard(raw).raised : raw \in ClockReadings } :
          IF fault THEN DashboardErrored ELSE rest

\* One turn of the "while True" loop in which next(result_iterator) returns a
\* result: aggregate, then either record the match, terminate the pool and
\* break, or (realis.py) append the block to the checkpoint and save it.  When
\* the unit's task function had raised, next() raises instead and the turn
\* goes to "except Exception".
ConsumeResult ==
    /\ pc = "loop"
    /\ outqueue # << >>
    /\ LET res == Head(outqueue)
           buffer == log_buffer \o (IF script = "realis3" THEN res.failed_data ELSE << >>)
       IN  IF res.raised
           THEN /\ pc' = "Errored"
                /\ pool' = handler_pool(pool)
                /\ outqueue' = << >>
                /\ failed_unit' = res.unit
                /\ file_log_failed' = closed_log(log_buffer)
                /\ log_buffer' = << >>
                /\ UNCHANGED << total_checked, session_checked, consumed, matched,
                                file_checkpoint, file_log_success, completed_blocks >>
           ELSE
           /\ total_checked' = aggregate(total_checked, res)
           /\ session_checked' = IF script = "realis"
                                 THEN aggregate(session_checked, res)
                                 ELSE session_checked
           /\ consumed' = consumed \cup {res.unit}
           /\ matched' = IF res.is_found /\ ~matched.is_found THEN res ELSE matched
           /\ failed_unit' = failed_unit
           /\ IF found_branch(res)
              THEN /\ file_log_success' = success_record(res)
                   /\ pool' = Terminated
                   /\ outqueue' = << >>
                   /\ pc' = "Found"
                   /\ file_log_failed' = closed_log(buffer)
                   /\ log_buffer' = << >>
                   /\ UNCHANGED << completed_blocks, file_checkpoint >>
              ELSE IF script # "realis"
              THEN /\ log_buffer' = buffer
                   /\ outqueue' = Tail(outqueue)
                   /\ UNCHANGED << pc, pool, durable, completed_blocks >>
              ELSE IF completed_blocks.kind = "list"
              THEN \* completed_blocks.append(finished_word); json.dump(...)
                   /\ completed_blocks' = PyList(Append(completed_blocks.items, res.finished_word))
                   /\ file_checkpoint' = json_dump(completed_blocks')
                   /\ outqueue' = Tail(outqueue)
                   /\ UNCHANGED << pc, pool, file_log_success, file_log_failed, log_buffer >>
              ELSE \* a dict has no append: AttributeError, caught by "except Exception"
                   /\ pc' = "Errored"
                   /\ pool' = handler_pool(pool)
                   /\ outqueue' = << >>
                   /\ UNCHANGED << durable, log_buffer, completed_blocks >>
    /\ UNCHANGED << config, tasks, inqueue, run, init_failed, start_record, warned >>

Consume == LoopTurn(ConsumeResult)

\* next(result_iterator) raises StopIteration: every task's result was consumed.
StopIterationEarly ==
    /\ pc = "loop"
    /\ outqueue = << >>
    /\ pc' = "Exhausted"
    /\ pool' = Terminated
    /\ file_log_failed' = closed_log(log_buffer)
    /\ log_buffer' = << >>
    /\ UNCHANGED << config, file_checkpoint, file_log_success, completed_blocks, tasks,
                    total_checked, session_checked, inqueue, outqueue, run,
                    consumed, matched, failed_unit, init_failed, start_record, warned >>
StopIteration ==
    /\ pc = "loop"
    /\ outqueue = << >>
    /\ Cardinality(consumed) = Len(tasks)
    /\ pc' = "Exhausted"
    /\ pool' = Terminated
    /\ file_log_failed' = closed_log(log_buffer)
    /\ log_buffer' = << >>
    /\ UNCHANGED << config, file_checkpoint, file_log_success, completed_blocks, tasks,
                    total_checked, session_checked, inqueue, outqueue, run,
                    consumed, matched, failed_unit, init_failed, start_record, warned >>

Exhaust == LoopTurn(StopIteration)

\* KeyboardInterrupt while the loop waits: pool.terminate(), then return
\* (realis.py, realis2.py) or break into the finally (realis3.py).
Interrupt ==
    /\ pc = "loop"
    /\ pc' = "Interrupted"
    /\ pool' = Terminated
    /\ outqueue' = << >>
    /\ file_log_failed' = closed_log(log_buffer)
    /\ log_buffer' = << >>
    /\ UNCHANGED << config, file_checkpoint, file_log_success, completed_blocks, tasks,
                    total_checked, session_checked, inqueue, run,
                    consumed, matched, failed_unit, init_failed, start_record, warned >>

\* A turn in which next(result_iterator) had returned and a later statement
\* did not complete: KeyboardInterrupt arrived, or a write raised OSError.  The
\* statements of the turn up to that point have run, the rest have not.
\* stage 0: none; 1: the counts are added; 2: the failed list is handed to the
\* log handle (realis3.py); 3: found.log is opened, or the block is appended to
\* completed_blocks; 4: the password is written, or checkpoint.json is opened
\* and the first k chunks of the dump are written.  Then the handler runs.
TurnStages == 0..4

\* Can the statement that follows the stage raise OSError?  The log write,
\* the two open() calls, f.write(pw) and json.dump can.
may_raise(stage, res) ==
    LET found == found_branch(res)
        saving == ~found /\ script = "realis" /\ completed_blocks.kind = "list"
    IN  \/ stage = 1 /\ script = "realis3" /\ res.failed_data # << >>
        \/ stage = 2 /\ found
        \/ stage = 3 /\ (found \/ saving)
        \/ stage = 4 /\ saving

AbortedTurn(exc) ==
    /\ pc = "loop"
    /\ outqueue # << >>
    /\ ~Head(outqueue).raised
    /\ \E stage \in TurnStages :
          LET res == Head(outqueue)
              found == found_branch(res)
              buffer == log_buffer \o (IF script = "realis3" /\ stage >= 2
                                       THEN res.failed_data ELSE << >>)
              saving == ~found /\ script = "realis" /\ completed_blocks.kind = "list"
              appended == PyList(Append(completed_blocks.items, res.finished_word))
          IN  /\ exc = "OSError" => may_raise(stage, res)
              /\ total_checked' = IF stage >= 1 THEN aggregate(total_checked, res)
                                  ELSE total_checked
              /\ session_checked' = IF stage >= 1 /\ script = "realis"
                                    THEN aggregate(session_checked, res)
                                    ELSE session_checked
              /\ consumed' = IF stage >= 1 THEN consumed \cup {res.unit} ELSE consumed
              /\ file_log_success' =
                    IF found /\ stage = 3 THEN [exists |-> TRUE, content |-> ""]
                    ELSE IF found /\ stage = 4 THEN success_record(res)
                    ELSE file_log_success
              /\ completed_blocks' = IF saving /\ stage >= 3 THEN appended
                                     ELSE completed_blocks
              /\ IF saving /\ stage = 4
                 THEN \E k \in 0..(Len(json_chunks(appended)) - 1) :
                         file_checkpoint' = json_dump_torn(appended, k)
                 ELSE file_checkpoint' = file_checkpoint
              /\ file_log_failed' = closed_log(buffer)
    /\ log_buffer' = << >>
    /\ pc' = IF exc = "KeyboardInterrupt" THEN "Interrupted" ELSE "Errored"
    /\ pool' = IF exc = "KeyboardInterrupt" THEN Terminated ELSE handler_pool(pool)
    /\ outqueue' = << >>
    /\ UNCHANGED << config, tasks, inqueue, run, matched, failed_unit, init_failed,
                    start_record, warned >>

\* "except KeyboardInterrupt" and "except Exception" reached from such a turn.
InterruptTurn == LoopTurn(AbortedTurn("KeyboardInterrupt"))
ErrorTurn == LoopTurn(AbortedTurn("OSError"))

\* ------------------------------------------------------------------ workers
\* The result a worker puts on the result queue for task i.
result_of(i) ==
    LET r == unit_result(tasks[i])
    IN  [is_found |-> r.is_found, pw |-> r.pw, count |-> r.count,
         finished_word |-> r.finished_word, failed_data |-> r.failed_data, unit |-> i,
         raised |-> FALSE]

\* What the pool puts on the result queue when the task function raised for
\* task i: next(result_iterator) re-raises the exception in main().
raised_result(i) == [NoResult EXCEPT !.unit = i, !.raised = TRUE]

\* What no step of a worker process touches: main()'s variables, and the
\* files other than failed.log (no worker function opens a file).
worker_vars == << config, file_checkpoint, file_log_success, log_buffer, pc,
                  completed_blocks, tasks, total_checked, session_checked, run,
                  consumed, matched, failed_unit, start_record, warned >>

\* What a worker does to failed.log with the failed list of its unit: it
\* returns the list in its result ("return (False, None, checked, failed_list)")
\* and writes nothing itself.
worker_appends_log(log, failed_list) == [log EXCEPT !.lines = @ \o failed_list]
worker_side_log(log, failed_list) == log

\* init_worker in a fresh worker process: ctypes.CDLL and the argtypes binding
\* succeed, or raise RuntimeError("Worker Init Failed") and the process dies.
init_worker(ok) ==
    /\ pool.st = "running"
    /\ pool.starting > 0
    /\ pool' = IF ok
               THEN [pool EXCEPT !.starting = @ - 1, !.idle = @ + 1]
               ELSE [pool EXCEPT !.starting = @ - 1, !.dead = @ + 1]
    /\ init_failed' = (init_failed \/ ~ok)
    /\ UNCHANGED << worker_vars, file_log_failed, inqueue, outqueue >>

WorkerInit == \E ok \in BOOLEAN : init_worker(ok)

\* The pool's worker handler replaces a process that exited.
WorkerRespawn ==
    /\ pool.st = "running"
    /\ pool.dead > 0
    /\ pool' = [pool EXCEPT !.dead = @ - 1, !.starting = @ + 1]
    /\ UNCHANGED << worker_vars, file_log_failed, inqueue, outqueue, init_failed >>

\* imap_unordered hands the tasks to the workers in submission order: the
\* k-th task handed out is the k-th task of the list.
handed_last_first(k) == Len(tasks) + 1 - k
handed_out(k) == k

\* An idle worker receives the next task.
WorkerTake ==
    /\ pool.st = "running"
    /\ pool.idle > 0
    /\ inqueue <= Len(tasks)
    /\ pool' = [pool EXCEPT !.idle = @ - 1, !.busy = @ \cup {handed_out(inqueue)}]
    /\ inqueue' = inqueue + 1
    /\ UNCHANGED << worker_vars, file_log_failed, outqueue, init_failed >>

\* A worker finishes its unit and puts the result on the result queue.
WorkerFinish(u) ==
    /\ pool.st = "running"
    /\ u \in pool.busy
    /\ outqueue' = Append(outqueue, result_of(u))
    /\ pool' = [pool EXCEPT !.idle = @ + 1, !.busy = @ \ {u}]
    /\ file_log_failed' = worker_side_log(file_log_failed, result_of(u).failed_data)
    /\ UNCHANGED << worker_vars, inqueue, init_failed >>

\* The task function raises for unit u (the ctypes call or the encoding of a
\* candidate fails): the pool sends the exception as the unit's result and the
\* worker goes on with the next task.
WorkerRaise(u) ==
    /\ pool.st = "running"
    /\ u \in pool.busy
    /\ Cardinality({ k \in 1..Len(outqueue) : outqueue[k].raised }) < MaxFaults
    /\ outqueue' = Append(outqueue, raised_result(u))
    /\ pool' = [pool EXCEPT !.idle = @ + 1, !.busy = @ \ {u}]
    /\ UNCHANGED << worker_vars, file_log_failed, inqueue, init_failed >>

Next ==
    \/ FatalSetup
    \/ StartBlockRun
    \/ StartBatchRun
    \/ Consume
    \/ Exhaust
    \/ Interrupt
    \/ InterruptTurn
    \/ ErrorTurn
    \/ WorkerInit
    \/ WorkerRespawn
    \/ WorkerTake
    \/ \E u \in pool.busy : WorkerFinish(u)
    \/ \E u \in pool.busy : WorkerRaise(u)

Spec == Init /\ [][Next]_vars

\* ----------------------------------------------------- the partitioners alone
\* The task lists of realis.py (empty checkpoint) and of realis2.py, built for
\* every wordlist and every chunk size 1..MaxChunk, without running the pool.
InitPartition ==
    /\ script \in {"realis", "realis2"}
    /\ words \in WordLists
    /\ target = None
    /\ total_workers = 1
    /\ batch_size \in (IF script = "realis" THEN {1} ELSE 1..MaxChunk)
    /\ file_checkpoint = NoFile
    /\ file_log_success = [exists |-> FALSE, content |-> ""]
    /\ file_log_failed = [exists |-> FALSE, lines |-> << >>]
    /\ log_buffer = << >>
    /\ pc = "start"
    /\ completed_blocks = PyList(<< >>)
    /\ tasks = << >>
    /\ total_checked = 0
    /\ session_checked = 0
    /\ pool = NoPool
    /\ inqueue = 1
    /\ outqueue = << >>
    /\ run = 0
    /\ consumed = {}
    /\ matched = NoResult
    /\ failed_unit = 0
    /\ init_failed = FALSE
    /\ start_record = Absent
    /\ warned = FALSE

PartitionBlocks ==
    /\ pc = "start"
    /\ script = "realis"
    /\ tasks' = block_tasks(words, load_checkpoint(read_json(file_checkpoint)))
    /\ pc' = "partitioned"
    /\ UNCHANGED << config, durable, log_buffer, completed_blocks, total_checked,
                    session_checked, pool, inqueue, outqueue, run, consumed,
                    matched, failed_unit, init_failed, start_record, warned >>

PartitionBatches ==
    /\ pc = "start"
    /\ script = "realis2"
    /\ tasks' = batch_tasks(words, batch_size)
    /\ pc' = "partitioned"
    /\ UNCHANGED << config, durable, log_buffer, completed_blocks, total_checked,
                    session_checked, pool, inqueue, outqueue, run, consumed,
                    matched, failed_unit, init_failed, start_record, warned >>

NextPartition == PartitionBlocks \/ PartitionBatches

\* Runs that find no checkpoint.json when the first one starts.
InitFresh == Init /\ file_checkpoint = NoFile
SpecFresh == InitFresh /\ [][Next]_vars

\* The runs that start with no checkpoint and a found.log of an earlier search.
InitStale == InitWith(StaleRecord) /\ file_checkpoint = NoFile
SpecStale == InitStale /\ [][Next]_vars

SpecPartition == InitPartition /\ [][NextPartition]_vars

\* ------------------------------------------------------- undisturbed runs
\* Runs in which every init_worker succeeds, no task function raises, no
\* interrupt arrives and no write fails.  main() and the worker processes are
\* running processes: a step of theirs that stays possible is taken.
WorkerInitOk == init_worker(TRUE)
WorkerFinishes == \E u \in pool.busy : WorkerFinish(u)

NextLive ==
    \/ StartBlockRun
    \/ StartBatchRun
    \/ Consume
    \/ Exhaust
    \/ WorkerInitOk
    \/ WorkerTake
    \/ WorkerFinishes

Fairness ==
    /\ WF_vars(Consume)
    /\ WF_vars(Exhaust)
    /\ WF_vars(WorkerInitOk)
    /\ WF_vars(WorkerTake)
    /\ WF_vars(WorkerFinishes)

SpecLive == Init /\ [][NextLive]_vars /\ Fairness

\* ------------------------------------------------- the checkpoint file alone
\* One run saves its completed-block list (lines 217-219 of realis.py), the
\* next run loads it (lines 131-139), for every list of up to MaxSaved block
\* identifiers: plain words, a word spelled like two others, and words that
\* hold a quote, a backslash or the separator of the JSON list.
Identifiers == { "a", "b", "aa", "q\"r", "\\", "s, t" }
SavedLists == UNION { [1..k -> Identifiers] : k \in 0..MaxSaved }

InitRoundTrip ==
    /\ script = "realis"
    /\ words \in SavedLists
    /\ target = None
    /\ total_workers = 1
    /\ batch_size = 1
    /\ file_checkpoint = NoFile
    /\ file_log_success = [exists |-> FALSE, content |-> ""]
    /\ file_log_failed = [exists |-> FALSE, lines |-> << >>]
    /\ log_buffer = << >>
    /\ pc = "start"
    /\ completed_blocks = PyList(words)
    /\ tasks = << >>
    /\ total_checked = 0
    /\ session_checked = 0
    /\ pool = NoPool
    /\ inqueue = 1
    /\ outqueue = << >>
    /\ run = 0
    /\ consumed = {}
    /\ matched = NoResult
    /\ failed_unit = 0
    /\ init_failed = FALSE
    /\ start_record = Absent
    /\ warned = FALSE

\* The last checkpoint write of a run whose completed_blocks is the list.
SaveRecord ==
    /\ pc = "start"
    /\ file_checkpoint' = json_dump(completed_blocks)
    /\ pc' = "saved"
    /\ UNCHANGED << config, file_log_success, file_log_failed, log_buffer,
                    completed_blocks, tasks, total_checked, session_checked, pool,
                    inqueue, outqueue, run, consumed, matched, failed_unit,
                    init_failed, start_record, warned >>

\* The checkpoint load of the run that follows.
LoadRecord ==
    /\ pc = "saved"
    /\ start_record' = read_json(file_checkpoint)
    /\ completed_blocks' = load_checkpoint(start_record')
    /\ warned' = load_raises(start_record')
    /\ pc' = "loaded"
    /\ UNCHANGED << config, durable, log_buffer, tasks, total_checked,
                    session_checked, pool, inqueue, outqueue, run, consumed,
                    matched, failed_unit, init_failed >>

NextRoundTrip == SaveRecord \/ LoadRecord
SpecRoundTrip == InitRoundTrip /\ [][NextRoundTrip]_vars

\* ================================================================== claims
\* Helpers of the claims' formulas.
Distinct(s) == \A i, j \in 1..Len(s) : i # j => s[i] # s[j]
Range(s) == { s[i] : i \in 1..Len(s) }
RECURSIVE SumLen(_)
SumLen(ss) == IF ss = << >> THEN 0 ELSE Len(Head(ss)) + SumLen(Tail(ss))

BlocksBuilt == pc = "partitioned" /\ script = "realis"
BatchesBuilt == pc = "partitioned" /\ script = "realis2"
AllBlockPerms == Flatten([i \in 1..Len(tasks) |-> block_perms(tasks[i])])
AllBlockCandidates == Flatten([i \in 1..Len(tasks) |-> block_candidates(tasks[i])])
JoinInjective ==
    LET perms == permutations(words, Len(words))
    IN  \A i, j \in 1..Len(perms) : Join(perms[i]) = Join(perms[j]) => perms[i] = perms[j]

\* C3 as stated, with a candidate being the concatenated string the worker
\* checks: for n >= 1 distinct words the block task list has one unit per word,
\* each unit has (n-1)! candidates, no candidate string is in two units, and
\* the units together hold n! different candidates.  (For n = 0 the statement
\* fails as well: there is no unit, and 0! = 1.)
C3_StringPartition ==
    (BlocksBuilt /\ Distinct(words) /\ Len(words) >= 1) =>
        /\ Len(tasks) = Len(words)
        /\ \A i \in 1..Len(tasks) :
              /\ tasks[i].start_word = words[i]
              /\ Len(block_candidates(tasks[i])) = factorial(Len(words) - 1)
        /\ Distinct(AllBlockCandidates)
        /\ Cardinality(Range(AllBlockCandidates)) = factorial(Len(words))

\* C3 (amended): for n >= 1 distinct words the block task list has one unit per word
\* in wordlist order, each unit goes through (n-1)! permutations, no
\* permutation is gone through by two units (nor twice), the units together
\* cover exactly the n! permutations of the wordlist, and the candidate
\* strings are pairwise different whenever concatenation is injective on the
\* wordlist's permutations.
C3_BlockPartition ==
    (BlocksBuilt /\ Distinct(words) /\ Len(words) >= 1) =>
        /\ Len(tasks) = Len(words)
        /\ \A i \in 1..Len(tasks) :
              /\ tasks[i].start_word = words[i]
              /\ Len(block_perms(tasks[i])) = factorial(Len(words) - 1)
              /\ Len(block_candidates(tasks[i])) = factorial(Len(words) - 1)
              /\ \A k \in 1..Len(block_perms(tasks[i])) :
                    block_candidates(tasks[i])[k] = Join(block_perms(tasks[i])[k])
        /\ Distinct(AllBlockPerms)
        /\ Range(AllBlockPerms) = Range(permutations(words, Len(words)))
        /\ Cardinality(Range(AllBlockPerms)) = factorial(Len(words))
        /\ JoinInjective =>
              /\ Distinct(AllBlockCandidates)
              /\ Cardinality(Range(AllBlockCandidates)) = factorial(Len(words))

\* The spec's scenario: [a,b,c] gives a:[abc,acb], b:[bac,bca], c:[cab,cba].
C3_Witness ==
    /\ BlocksBuilt
    /\ words = << "a", "b", "c" >>
    /\ [i \in 1..Len(tasks) |-> block_candidates(tasks[i])]
         = << << "abc", "acb" >>, << "bac", "bca" >>, << "cab", "cba" >> >>

\* C4: chunked_iterable over the n! permutations with batch size B >= 1 gives
\* non-empty batches that are the stream cut in order, every batch but the
\* last of exactly B, the last of n! mod B when that is not 0, and n! in all.
C4_BatchPartition ==
    BatchesBuilt =>
        LET stream == permutations(words, Len(words))
            chunks == [i \in 1..Len(tasks) |-> tasks[i].batch_tuples]
            total == factorial(Len(words))
        IN  /\ Len(stream) = total
            /\ Flatten(chunks) = stream
            /\ SumLen(chunks) = total
            /\ \A i \in 1..Len(chunks) :
                  /\ chunks[i] # << >>
                  /\ i < Len(chunks) => Len(chunks[i]) = batch_size
            /\ Len(chunks) > 0
            /\ Len(chunks[Len(chunks)]) =
                  (IF total % batch_size # 0 THEN total % batch_size ELSE batch_size)
            /\ \A i \in 1..Len(tasks) : tasks[i].all_words = words

\* The spec's scenario: n = 3 and batch size 4 give batches of sizes [4, 2].
C4_Witness ==
    /\ BatchesBuilt
    /\ Len(words) = 3
    /\ batch_size = 4
    /\ [i \in 1..Len(tasks) |-> Len(tasks[i].batch_tuples)] = << 4, 2 >>

\* ------------------------------------------------------------ run claims
\* Sum of the counts of the results of a set of units.
RECURSIVE SumCounts(_)
SumCounts(units) ==
    IF units = {} THEN 0
    ELSE LET u == CHOOSE x \in units : TRUE
         IN  unit_result(tasks[u]).count + SumCounts(units \ {u})

\* total_checked as main() sets it before the loop.
BaseChecked ==
    IF script = "realis"
    THEN Len(load_checkpoint(start_record).items) * factorial(Len(words) - 1)
    ELSE 0

InRun == pc \in {"loop", "Found", "Exhausted", "Interrupted", "Errored"}

C2_LaterUnitsExcluded ==
    matched.is_found => \A u \in consumed : u <= matched.unit

\* C2 (amended): with one worker no unit submitted after the matching unit
\* contributes; with two or more workers such a unit contributes exactly when
\* its result was consumed before the matching one, so total_checked is the
\* base plus the counts of the units consumed up to and including the match.
C2_LaterUnitsSingleWorker ==
    matched.is_found =>
        /\ total_workers = 1 => \A u \in consumed : u <= matched.unit
        /\ (\E u \in consumed : u > matched.unit) => total_workers >= 2
        /\ matched.unit \in consumed
        /\ total_checked = BaseChecked + SumCounts(consumed)

\* One worker, a match in a unit that is neither the first nor the last.
C2_Witness ==
    /\ matched.is_found
    /\ total_workers = 1
    /\ matched.unit > 1
    /\ matched.unit < Len(tasks)
    /\ consumed = 1..matched.unit

\* C5 as stated: total_checked never exceeds n!.  (That it never decreases
\* within a run holds: C5_Monotone.)
C5_TotalBounded == InRun => total_checked <= factorial(Len(words))

\* C5, the part that holds: within a run total_checked never decreases.
C5_Monotone == [][run' = run => total_checked' >= total_checked]_vars

\* C6: a block-mode run dispatches no unit whose leading word is in the
\* checkpoint record it started with: no such unit is in the task list, none
\* is handed to a worker and none has a result; every other line of the
\* wordlist has its unit, in wordlist order.
C6_ResumeSkips ==
    (script = "realis" /\ pc # "start" /\ run > 0 /\ start_record.kind = "list") =>
        /\ \A i \in 1..Len(tasks) : ~Contains(start_record.items, tasks[i].start_word)
        /\ \A u \in pool.busy : ~Contains(start_record.items, tasks[u].start_word)
        /\ \A k \in 1..Len(outqueue) :
              ~Contains(start_record.items, outqueue[k].finished_word)
        /\ consumed \subseteq 1..Len(tasks)
        /\ [i \in 1..Len(tasks) |-> tasks[i].start_word]
             = SelectSeq(words, LAMBDA w : ~Contains(start_record.items, w))

\* A resumed run: the record names a word of the wordlist, and a unit of
\* another word has been processed.
C6_Witness ==
    /\ script = "realis"
    /\ pc = "loop"
    /\ start_record.kind = "list"
    /\ \E i \in 1..Len(words) : Contains(start_record.items, words[i])
    /\ consumed # {}

\* C7: a block identifier is in the persisted checkpoint at most once.
C7_NoDuplicateIds ==
    read_json(file_checkpoint).kind = "list" => Distinct(read_json(file_checkpoint).items)

Malformed(record) == record.kind \in {"garbage", "scalar", "object"}

\* C8: a run that finds a checkpoint record that is not a list of block
\* identifiers warns, dispatches all n units, starts total_checked at 0 and
\* does not end in an error.
C8_CorruptTreatedAsEmpty ==
    (script = "realis" /\ run > 0 /\ pc # "Fatal" /\ Malformed(start_record)) =>
        /\ warned
        /\ Len(tasks) = Len(words)
        /\ total_checked = SumCounts(consumed)
        /\ pc # "Errored"

\* What does hold: a record json.load cannot parse, or one that loads to a
\* value without a length, is treated as empty.
C8_UnparseableTreatedAsEmpty ==
    (script = "realis" /\ run > 0 /\ pc # "Fatal" /\ load_raises(start_record)) =>
        /\ warned
        /\ Len(tasks) = Len(words)
        /\ total_checked = SumCounts(consumed)
        /\ pc # "Errored"

\* C9: in block mode, whenever the coordinator is back at the head of the loop
\* (about to wait for the next result), every unit it has consumed without a
\* match has its leading word in completed_blocks, nothing else was added, and
\* checkpoint.json holds exactly completed_blocks.
C9_CheckpointFlushed ==
    (script = "realis" /\ pc = "loop" /\ consumed # {}) =>
        /\ completed_blocks.kind = "list"
        /\ read_json(file_checkpoint) = PyList(completed_blocks.items)
        /\ Len(completed_blocks.items)
             = Len(load_checkpoint(start_record).items) + Cardinality(consumed)
        /\ SubSeq(completed_blocks.items, 1, Len(load_checkpoint(start_record).items))
             = load_checkpoint(start_record).items
        /\ \A u \in consumed : Contains(completed_blocks.items, tasks[u].start_word)
        /\ \A u \in consumed : ~unit_result(tasks[u]).is_found

\* Two blocks checkpointed in this run, more to come.
C9_Witness ==
    /\ script = "realis"
    /\ pc = "loop"
    /\ Cardinality(consumed) = 2
    /\ Len(tasks) = 3
    /\ read_json(file_checkpoint) = PyList(completed_blocks.items)

\* C10: once an init_worker has raised in a run, the run processes no unit:
\* no task is handed to a worker and no result is aggregated.
C10_SetupFailureFatal ==
    [][(init_failed /\ run' = run) =>
          /\ inqueue' = inqueue
          /\ total_checked' = total_checked]_vars

\* Is s a prefix of t?
IsPrefix(s, t) == Len(s) <= Len(t) /\ SubSeq(t, 1, Len(s)) = s
\* A step in which the stop signal ends the run.
InterruptStep == pc = "loop" /\ pc' = "Interrupted"

\* C11: whenever the stop signal ends a run, the pool is terminated, the run
\* does not end in the error state, checkpoint.json still holds a list with
\* every block identifier of the last completed checkpoint write, and
\* failed.log holds every entry that had been handed to the log before.
C11_InterruptPreserves ==
    [][InterruptStep =>
          /\ pool' = Terminated
          /\ read_json(file_checkpoint).kind = "list" =>
                /\ read_json(file_checkpoint').kind = "list"
                /\ IsPrefix(read_json(file_checkpoint).items, read_json(file_checkpoint').items)
          /\ IsPrefix(file_log_failed.lines \o log_buffer, file_log_failed'.lines)]_vars

\* C11, the part that holds: a stop signal that arrives while the coordinator
\* waits in next(result_iterator) terminates the pool and leaves checkpoint.json
\* and found.log as they were, and failed.log with every entry handed to it.
C11_InterruptWhileWaiting ==
    [][(InterruptStep /\ consumed' = consumed /\ total_checked' = total_checked) =>
          /\ pool' = Terminated
          /\ file_checkpoint' = file_checkpoint
          /\ file_log_success' = file_log_success
          /\ file_log_failed'.lines = file_log_failed.lines \o log_buffer]_vars

\* C12: a run that stops on a fatal setup error leaves checkpoint.json,
\* found.log and failed.log as they were, has no running pool, and takes no
\* further step: no unit is dispatched and nothing is written.
C12_FatalSetupWritesNothing ==
    /\ [][(pc' = "Fatal" /\ run' # run) =>
            /\ durable' = durable
            /\ pool'.st # "running"
            /\ pool'.busy = {}
            /\ inqueue' = inqueue
            /\ outqueue' = outqueue]_vars
    /\ [][(pc = "Fatal" /\ run' = run) => FALSE]_vars

\* A fatal run that follows a run which had written a checkpoint.
C12_Witness ==
    /\ pc = "Fatal"
    /\ run = 2
    /\ read_json(file_checkpoint).kind = "list"
    /\ read_json(file_checkpoint).items # << >>
    /\ start_record.kind = "absent"

\* C13: a run that ends Exhausted has consumed every unit of its task list,
\* none of them matched, total_checked is n!, and in block mode checkpoint.json
\* lists every word of the wordlist.
C13_ExhaustedComplete ==
    pc = "Exhausted" =>
        /\ consumed = 1..Len(tasks)
        /\ \A u \in consumed : ~unit_result(tasks[u]).is_found
        /\ total_checked = factorial(Len(words))
        /\ script = "realis" =>
              \A i \in 1..Len(words) : Contains(read_json(file_checkpoint).items, words[i])

\* C13, the part that holds: at Exhausted every unit was consumed without a
\* match, total_checked is the base plus the sizes of all units, and in block
\* mode every word is in checkpoint.json.
C13_ExhaustedConsumedAll ==
    pc = "Exhausted" =>
        /\ consumed = 1..Len(tasks)
        /\ \A u \in consumed : ~unit_result(tasks[u]).is_found
        /\ total_checked = BaseChecked + SumLen([i \in 1..Len(tasks) |-> unit_candidates(tasks[i])])
        /\ script = "realis" =>
              \A i \in 1..Len(words) : Contains(read_json(file_checkpoint).items, words[i])

\* A step in which the coordinator takes from the result stream the outcome of
\* a unit whose task function raised, other than by being interrupted.
RaisedStep ==
    /\ pc = "loop"
    /\ outqueue # << >>
    /\ Head(outqueue).raised
    /\ Len(outqueue') < Len(outqueue)
    /\ pc' # "Interrupted"

\* C14: every step that ends a run in Errored terminates the pool; the step
\* that receives a unit's exception ends the run in Errored, aggregates
\* nothing and leaves completed_blocks and checkpoint.json as they were (the
\* failed unit's word is not added); no step follows in an Errored run (no
\* further result is aggregated, nothing is resubmitted); and within a run a
\* unit is handed to a worker at most once, in submission order.
C14_ErroredStops ==
    /\ [][(pc = "loop" /\ pc' = "Errored") => pool' = Terminated]_vars
    /\ [][RaisedStep =>
            /\ pc' = "Errored"
            /\ failed_unit' = Head(outqueue).unit
            /\ total_checked' = total_checked
            /\ consumed' = consumed
            /\ completed_blocks' = completed_blocks
            /\ file_checkpoint' = file_checkpoint]_vars
    /\ [][(pc = "Errored" /\ run' = run) => FALSE]_vars
    /\ [][(run' = run /\ pool'.busy # pool.busy /\ ~(pool'.busy \subseteq pool.busy)) =>
            /\ inqueue' = inqueue + 1
            /\ pool'.busy \ pool.busy = {inqueue}]_vars

\* A block-mode run ended by the exception of its second unit, after the
\* first unit was checkpointed and with a third unit never consumed.
C14_Witness ==
    /\ script = "realis"
    /\ pc = "Errored"
    /\ failed_unit = 2
    /\ consumed = {1}
    /\ Len(tasks) = 3
    /\ read_json(file_checkpoint).items = << tasks[1].start_word >>
    /\ pool = Terminated

\* C15: found.log changes only in a step that consumes a result with
\* found = true; that step ends the run in Found (so the record is written at
\* most once per run, and never by a run that ends Exhausted, Interrupted or
\* Errored) and leaves in found.log exactly the password of that result, which
\* the Verifier accepts.
C15_SuccessRecordOnce ==
    [][file_log_success' # file_log_success =>
          /\ pc = "loop"
          /\ outqueue # << >>
          /\ Head(outqueue).is_found
          /\ pc' = "Found"
          /\ file_log_success' = [exists |-> TRUE, content |-> Head(outqueue).pw]
          /\ CheckPassword(Head(outqueue).pw) = 1]_vars

\* C15, the part that holds: found.log changes only in a turn that received a
\* result with found = true, that turn ends the run, and found.log then holds
\* that result's accepted password or, when the turn was cut short, nothing.
C15_WrittenOnlyOnMatch ==
    [][file_log_success' # file_log_success =>
          /\ pc = "loop"
          /\ outqueue # << >>
          /\ Head(outqueue).is_found
          /\ CheckPassword(Head(outqueue).pw) = 1
          /\ pc' \in {"Found", "Interrupted", "Errored"}
          /\ file_log_success'.exists
          /\ file_log_success'.content \in {Head(outqueue).pw, ""}
          /\ pc' = "Found" => file_log_success'.content = Head(outqueue).pw]_vars

\* Everything handed to the failed-candidate log so far: what failed.log holds
\* and what its handle still buffers.
Logged == file_log_failed.lines \o log_buffer

\* C16: the failed-candidate log only grows in a turn of the loop that received
\* a unit's result, and then by exactly that unit's whole rejected list; so
\* nothing of a unit that was in flight, or completed but not consumed, when
\* the pool was terminated is ever written.
C16_OnlyConsumedUnitsLogged ==
    [][Logged' # Logged =>
          /\ pc = "loop"
          /\ outqueue # << >>
          /\ ~Head(outqueue).raised
          /\ Head(outqueue).unit \in consumed'
          /\ Logged' = Logged \o Head(outqueue).failed_data]_vars

\* A run of realis3.py ended by a match or a stop signal while units were left
\* unconsumed; the log holds rejected lists of consumed units only.
C16_Witness ==
    /\ script = "realis3"
    /\ run = 1
    /\ pc \in {"Found", "Interrupted"}
    /\ consumed # {}
    /\ Cardinality(consumed) < Len(tasks)
    /\ inqueue > Cardinality(consumed) + 1
    /\ file_log_failed.lines # << >>
    /\ Len(file_log_failed.lines) = SumLen([u \in 1..Len(tasks) |->
            IF u \in consumed THEN unit_result(tasks[u]).failed_data ELSE << >>])

\* C17: the completed-block list a run loads from checkpoint.json is the list
\* the previous run saved there, entry by entry and in the same order, and the
\* load neither warns nor resets; for every list of block identifiers.
C17_CheckpointRoundTrip ==
    pc = "loaded" =>
        /\ completed_blocks = PyList(words)
        /\ start_record = PyList(words)
        /\ ~warned

\* A list with a repeated entry and entries that need escaping, loaded back.
C17_Witness ==
    /\ pc = "loaded"
    /\ words = << "q\"r", "\\", "q\"r" >>
    /\ completed_blocks.items = words
    /\ file_checkpoint.exists

\* The positions of the candidates the Verifier accepts.
Accepted(cands) == { k \in 1..Len(cands) : CheckPassword(cands[k]) = 1 }
LeastOf(S) == CHOOSE k \in S : \A j \in S : k <= j

\* What C18 says of the result r of a unit with candidates cands.
UnitResultAsSpecified(r, cands, logging) ==
    IF Accepted(cands) # {}
    THEN /\ r.is_found
         /\ r.pw = cands[LeastOf(Accepted(cands))]
         /\ r.count = LeastOf(Accepted(cands))
    ELSE /\ ~r.is_found
         /\ r.pw = None
         /\ r.count = Len(cands)
         /\ logging => r.failed_data = cands

\* C18: for every unit of the task list, and for every result a worker has put
\* on the result stream: if some candidate is accepted, found = true, the
\* password is the first accepted candidate in generation order and the count
\* is its position (no later candidate was checked); otherwise found = false,
\* no password, the count is the unit's size and, with logging enabled, the
\* failed list is the unit's candidates in generation order.
C18_UnitResult ==
    (pc \in {"loop", "Found", "Exhausted", "Interrupted", "Errored"}) =>
        /\ \A i \in 1..Len(tasks) :
              UnitResultAsSpecified(unit_result(tasks[i]), unit_candidates(tasks[i]),
                                    script = "realis3")
        /\ \A k \in 1..Len(outqueue) :
              ~outqueue[k].raised =>
                 /\ UnitResultAsSpecified(outqueue[k], unit_candidates(tasks[outqueue[k].unit]),
                                          script = "realis3")
                 /\ script = "realis" =>
                       outqueue[k].finished_word = tasks[outqueue[k].unit].start_word

\* A worker of realis3.py returned a match at the second of three candidates.
C18_Witness ==
    /\ script = "realis3"
    /\ outqueue # << >>
    /\ Head(outqueue).is_found
    /\ Head(outqueue).count = 2
    /\ Len(tasks[Head(outqueue).unit].batch_tuples) = 3
    /\ Head(outqueue).pw = batch_candidates(tasks[Head(outqueue).unit])[2]

\* A step of a worker process: init_worker, a task taken, a task finished or
\* raised; and the pool replacing a worker process that died.
WorkerStep ==
    \/ WorkerInit
    \/ WorkerRespawn
    \/ WorkerTake
    \/ \E u \in pool.busy : WorkerFinish(u)
    \/ \E u \in pool.busy : WorkerRaise(u)

\* C19: no step of a worker changes checkpoint.json, failed.log (or what its
\* handle buffers) or found.log; every step that changes one of them is a
\* step of main(), which moves or ends its loop turn.
C19_WorkersWriteNothing ==
    /\ [][WorkerStep => UNCHANGED << durable, log_buffer >>]_vars
    /\ [][(durable' # durable \/ log_buffer' # log_buffer) =>
            /\ ~WorkerStep
            /\ pool' = pool \/ pool' \in {NewPool, Terminated}]_vars

\* Two workers of realis3.py have each finished a unit with rejected
\* candidates, main() has consumed neither, and nothing is on disk.
C19_Witness ==
    /\ script = "realis3"
    /\ pc = "loop"
    /\ run = 1
    /\ Len(outqueue) >= 2
    /\ \A k \in 1..Len(outqueue) : outqueue[k].failed_data # << >>
    /\ consumed = {}
    /\ Logged = << >>
    /\ ~file_log_success.exists
    /\ ~file_checkpoint.exists

\* C20: at every loop turn the outcome of the dashboard for control (it
\* raises or it does not) is the same for every clock reading, so the turn
\* goes the same way and leaves the same total_checked and files whatever the
\* clock says; the readings only change the values shown.
C20_ClockIndependent ==
    pc = "loop" =>
        \A r1, r2 \in ClockReadings :
            /\ dashboard(r1).raised = dashboard(r2).raised
            /\ ~dashboard(r1).raised

\* A loop turn after some unit was consumed in which two clock readings show
\* different speeds and different ETAs.
C20_Witness ==
    /\ pc = "loop"
    /\ consumed # {}
    /\ total_checked < total_combinations
    /\ \E r1, r2 \in ClockReadings :
          /\ dashboard(r1).speed # dashboard(r2).speed
          /\ dashboard(r1).eta # dashboard(r2).eta
          /\ dashboard(r1).eta.num > 0

\* C21: in every loop turn and for every clock reading the elapsed time used
\* as divisor is at least the positive floor, the dashboard raises no
\* division by zero, eta is remaining / speed when speed > 0 and the sentinel
\* 0 when speed = 0, and remaining = total_combinations - total_checked is
\* never negative.
C21_ProgressEstimator ==
    pc = "loop" =>
        \A raw \in ClockReadings :
            LET d == dashboard(raw)
            IN  /\ ~d.raised
                /\ d.elapsed >= elapsed_floor /\ d.elapsed > 0
                /\ d.speed = Quotient(speed_count, d.elapsed)
                /\ speed_count > 0 =>
                      \* eta * speed = remaining, cross-multiplied
                      d.eta.num * d.speed.num = d.remaining * d.speed.den * d.eta.den
                /\ speed_count = 0 => d.eta = Quotient(0, 1)
                /\ d.remaining = total_combinations - total_checked
                /\ d.remaining >= 0

\* C21, the part that holds: the divisor is clamped, nothing raises, and eta
\* is remaining / speed or the sentinel.
C21_EtaNoDivisionFault ==
    pc = "loop" =>
        \A raw \in ClockReadings :
            LET d == dashboard(raw)
            IN  /\ ~d.raised
                /\ d.elapsed >= elapsed_floor /\ d.elapsed > 0
                /\ speed_count > 0 =>
                      d.eta.num * d.speed.num = d.remaining * d.speed.den * d.eta.den
                /\ speed_count = 0 => d.eta = Quotient(0, 1)

\* The block of the wordlist that an identifier names: the task main() builds
\* for that start word.
BlockNamed(w) == [r |-> Len(words), all_words |-> words, start_word |-> w]
Rejected(cands) == \A k \in 1..Len(cands) : CheckPassword(cands[k]) = 0
PersistedIds == read_json(file_checkpoint).items

\* Every identifier in checkpoint.json is a word whose block holds no accepted
\* candidate, and when some block of the wordlist holds the password, so does
\* a block of the task list of every run.
CheckpointSound ==
    script = "realis" =>
        /\ \A k \in 1..Len(PersistedIds) :
              /\ Contains(words, PersistedIds[k])
              /\ Rejected(block_candidates(BlockNamed(PersistedIds[k])))
        /\ ((InRun \/ pc = "AllDone")
               /\ \E j \in 1..Len(words) :
                     Contains(block_candidates(BlockNamed(words[j])), target)) =>
              \E i \in 1..Len(tasks) : Contains(block_candidates(tasks[i]), target)

\* An identifier in checkpoint.json was there when the run started, or is the
\* finished word of a unit this run has consumed: not found, all (n-1)!
\* candidates counted and rejected.
CheckpointedWhenChecked ==
    script = "realis" =>
        LET ids == PersistedIds
        IN  \A k \in 1..Len(ids) :
                \/ Contains(start_record.items, ids[k])
                \/ \E u \in consumed :
                      LET res == result_of(u)
                      IN  /\ ~res.is_found
                          /\ res.finished_word = ids[k]
                          /\ res.count = factorial(Len(words) - 1)
                          /\ Rejected(block_candidates(tasks[u]))

\* C22: starting from an absent checkpoint, after any sequence of block-mode
\* runs every identifier in checkpoint.json names a block all of whose
\* (n-1)! candidates were checked and rejected; a block with an accepted
\* candidate is never checkpointed, so no run skips the block that holds the
\* password.
C22_CheckpointSoundness == CheckpointSound /\ CheckpointedWhenChecked

\* A resumed block-mode run that skipped a checkpointed block and whose task
\* list holds the block with the password.
C22_Witness ==
    /\ script = "realis"
    /\ run = 2
    /\ pc = "loop"
    /\ target # None
    /\ start_record.kind = "list" /\ start_record.items # << >>
    /\ Len(tasks) < Len(words)
    /\ \E i \in 1..Len(tasks) : Contains(block_candidates(tasks[i]), target)

\* Some unit of the task list holds a candidate the Verifier accepts.
Dispatched == \E i \in 1..Len(tasks) : Contains(unit_candidates(tasks[i]), target)
SuccessRecord == [exists |-> TRUE, content |-> target]

\* C23: in an undisturbed run with fair scheduling, when a dispatched unit
\* holds an accepted candidate (and the loaded checkpoint is a list, so that
\* saving it raises nothing) the run eventually reaches Found with the success
\* record written, and it never reaches Exhausted.
C23_SearchCompleteness ==
    /\ (pc = "loop" /\ Dispatched /\ completed_blocks.kind = "list")
          ~> (pc = "Found" /\ file_log_success = SuccessRecord)
    /\ []((Dispatched /\ completed_blocks.kind = "list") => pc # "Exhausted")

\* A run that reached Found after it had consumed a unit without a match.
C23_Witness ==
    /\ pc = "Found"
    /\ Dispatched
    /\ file_log_success = SuccessRecord
    /\ Cardinality(consumed) >= 2

\* C24: the Verifier accepts exactly one string (target), so for a given
\* wordlist the success record of a run that reaches Found holds that string,
\* whatever the number of workers, the order in which the results arrived,
\* the batch size and the script.
C24_OutcomeDeterminism ==
    pc = "Found" => file_log_success = [exists |-> TRUE, content |-> target]

\* A run with two workers that reached Found after it had consumed the result
\* of a unit submitted after the matching one.
C24_Witness ==
    /\ pc = "Found"
    /\ total_workers = 2
    /\ matched.is_found
    /\ \E u \in consumed : u > matched.unit
    /\ file_log_success.content = target

\* C25: a block-mode run that consumed all its units without a match reports
\* that the password was not found, whatever the earlier runs left on disk.
C25_ReportsNotFound ==
    (script = "realis" /\ pc = "Exhausted" /\ ~matched.is_found) =>
        Contains(end_report(file_log_success), "tidak ditemukan")

IsSuffix(s, t) == Len(s) <= Len(t) /\ SubSeq(t, Len(t) - Len(s) + 1, Len(t)) = s
\* The orders in which the units of a set can have been consumed.
Orders(S) == { o \in [1..Cardinality(S) -> S] : \A u \in S : \E k \in DOMAIN o : o[k] = u }
\* The rejected candidates of a unit, in generation order: all of them, or
\* those before the first accepted one.
RejectedOf(u) ==
    LET cands == unit_candidates(tasks[u])
        acc == Accepted(cands)
    IN  IF acc = {} THEN cands ELSE SubSeq(cands, 1, LeastOf(acc) - 1)
\* The log of a run that consumed the units in this order.
LogOf(order) == Flatten([k \in 1..Len(order) |-> RejectedOf(order[k])])

\* What this run has appended is the rejected candidates of these units, unit
\* after unit in some order, each list whole and in generation order, and no
\* entry is a candidate the Verifier accepts.
RunLogIs(units) ==
    \E order \in Orders(units) :
        /\ IsSuffix(LogOf(order), Logged)
        /\ run = 1 => Logged = LogOf(order)
        /\ \A k \in 1..Len(LogOf(order)) : CheckPassword(LogOf(order)[k]) = 0

\* C26: with failed-candidate logging enabled, the entries a batch-mode run
\* has appended to the failed log are candidates the Verifier rejected, each
\* rejected candidate of each consumed unit (the rejected prefix of the
\* matching unit included) exactly once, the entries of one unit contiguous
\* and in generation order.
C26_FailedLogContent ==
    (script = "realis3" /\ InRun) => RunLogIs(consumed)

\* C26, the part that holds: it is so for the units whose turn ran to its
\* end; a turn cut short by a signal or a failed write leaves at most the
\* last consumed unit out of the log.
C26_CompletedTurnsLogged ==
    (script = "realis3" /\ InRun) =>
        IF pc \in {"Interrupted", "Errored"}
        THEN RunLogIs(consumed) \/ \E u \in consumed : RunLogIs(consumed \ {u})
        ELSE RunLogIs(consumed)

====
